---- MODULE Spec2Model ----
(***************************************************************************)
(* Model of the keyboard effect manager (src/effects/mod.rs): the manager  *)
(* facade, the command channel, the worker thread's command loop, the      *)
(* profile-apply procedure, the custom-effect runner and the stop-signal   *)
(* pair.                                                                   *)
(***************************************************************************)
EXTENDS Integers, Sequences, FiniteSets, TLC

----------------------------------------------------------------------------
(* Bounds of the model *)

\* number of commands (Refresh, Profile, CustomEffect) the producer enqueues in one run
MaxSends == 2
\* device calls recorded per dispatch; later calls are made but not recorded
MaxLog == 8

----------------------------------------------------------------------------
(* Data *)

Red == <<255, 0, 0, 255, 0, 0, 255, 0, 0, 255, 0, 0>>
Blue == <<0, 0, 255, 0, 0, 255, 0, 0, 255, 0, 0, 255>>
Black == <<0, 0, 0, 0, 0, 0, 0, 0, 0, 0, 0, 0>>

\* the palette Effects::SmoothWave forces
SmoothWavePalette == <<255, 0, 0, 0, 255, 0, 0, 0, 255, 255, 0, 255>>

\* Effects applied by the worker itself, without a driver loop
DirectEffects == {"Static", "Breath", "Smooth", "Wave"}

\* Effects delegated to an effect driver
DriverEffects == {"Lightning", "AmbientLight", "SmoothWave", "Swipe", "Disco",
                  "Christmas", "Fade", "Temperature", "Ripple"}

Effects == DirectEffects \cup DriverEffects

MkProfile(e, rgb, s, b, d) ==
    [effect |-> e, rgb_array |-> rgb, speed |-> s, brightness |-> b, direction |-> d]

\* Profile::default()
DefaultProfile == MkProfile("Static", Black, 1, 1, "Right")

\* the profiles a caller submits
Profiles ==
    { MkProfile("Static", Red, 1, 2, "Right"),
      MkProfile("Breath", Blue, 2, 1, "Right"),
      MkProfile("Smooth", Blue, 2, 2, "Right"),
      MkProfile("Wave", Red, 2, 1, "Left"),
      MkProfile("Wave", Blue, 1, 2, "Right"),
      MkProfile("SmoothWave", Blue, 1, 1, "Left"),
      MkProfile("Swipe", Red, 2, 2, "Right") }

MkStep(t, rgb, s, b, n, d, sl) ==
    [step_type |-> t, rgb_array |-> rgb, speed |-> s, brightness |-> b,
     steps |-> n, delay_between_steps |-> d, sleep |-> sl]

StepSet == MkStep("Set", Red, 1, 2, 0, 0, 10)
StepTransition == MkStep("Transition", Blue, 2, 1, 2, 5, 20)

MkEffect(steps, l) == [effect_steps |-> steps, should_loop |-> l]

NoEffect == MkEffect(<<>>, FALSE)

\* the custom effects a caller submits
CustomEffects ==
    { MkEffect(steps, l) :
        steps \in {<<>>, <<StepTransition, StepSet>>},
        l \in BOOLEAN }

Refresh == [type |-> "Refresh"]
Exit == [type |-> "Exit"]
ProfileMsg(p) == [type |-> "Profile", profile |-> p]
CustomEffectMsg(e) == [type |-> "CustomEffect", effect |-> e]

----------------------------------------------------------------------------
(* State *)

VARIABLES
    mgr,                    \* the EffectManager handle: "alive", "joining", "joined"
    sent,                   \* every message enqueued so far, in order
    queue,                  \* the channel's contents
    dispatched,             \* every message the worker received, in order
    pc,                     \* the worker thread's position
    last_profile,           \* Inner.last_profile
    profile,                \* set_profile's (mutable) argument
    custom_effect,          \* custom_effect's argument
    step_i,                 \* index of the step the for loop is at
    sub,                    \* sub-steps a running transition still has to make
    keyboard_stop_signal,   \* StopSignals.keyboard_stop_signal
    manager_stop_signal,    \* StopSignals.manager_stop_signal
    sig_pc,                 \* position of a caller of StopSignals::store_true
    dev,                    \* the device's state
    calls,                  \* device calls of the current dispatch
    writer,                 \* number of the command that made the last device call
    active,                 \* numbers of the commands whose handler has not returned
    stores,                 \* values the worker stored to the flags since its last receive
    observed                \* the current handler has read the stop flag as raised

chan == <<sent, queue, dispatched>>
flags == <<keyboard_stop_signal, manager_stop_signal>>
locals == <<profile, custom_effect, step_i, sub>>
device == <<dev, calls, writer>>
hist == <<active, stores, observed>>

vars == <<mgr, sent, queue, dispatched, pc, last_profile, profile, custom_effect,
          step_i, sub, keyboard_stop_signal, manager_stop_signal, sig_pc, dev,
          calls, writer, active, stores, observed>>

----------------------------------------------------------------------------
(* The device handle *)

InitDev == [effect |-> "Static", speed |-> 0, brightness |-> 0, colors |-> Black]

SetEffect(m) == [op |-> "set_effect", mode |-> m]
SetSpeed(v) == [op |-> "set_speed", val |-> v]
SetBrightness(v) == [op |-> "set_brightness", val |-> v]
SetColorsTo(rgb) == [op |-> "set_colors_to", rgb |-> rgb]
TransitionColorsTo(rgb, n, d) ==
    [op |-> "transition_colors_to", rgb |-> rgb, steps |-> n, delay |-> d]

\* the device state after a call; a transition changes the colors sub-step by sub-step
ApplyCall(d, c) ==
    CASE c.op = "set_effect" -> [d EXCEPT !.effect = c.mode]
      [] c.op = "set_speed" -> [d EXCEPT !.speed = c.val]
      [] c.op = "set_brightness" -> [d EXCEPT !.brightness = c.val]
      [] c.op = "set_colors_to" -> [d EXCEPT !.colors = c.rgb]
      [] OTHER -> d

\* one sub-step of a transition towards target with n sub-steps left
TransitionSubStep(colors, target, n) ==
    [j \in 1..12 |-> colors[j] + ((target[j] - colors[j]) \div n)]

Record(log, c) == IF Len(log) < MaxLog THEN Append(log, c) ELSE log

\* the worker makes device call c on behalf of the command it is dispatching
DeviceCall(c) ==
    /\ dev' = ApplyCall(dev, c)
    /\ calls' = Record(calls, c)
    /\ writer' = Len(dispatched)

----------------------------------------------------------------------------
(* Initial state: EffectManager::new *)

Init ==
    /\ mgr = "alive"
    /\ sent = <<>>
    /\ queue = <<>>
    /\ dispatched = <<>>
    /\ pc = "recv"
    /\ last_profile = DefaultProfile
    /\ profile = DefaultProfile
    /\ custom_effect = NoEffect
    /\ step_i = 0
    /\ sub = 0
    /\ keyboard_stop_signal = FALSE
    /\ manager_stop_signal = FALSE
    /\ sig_pc = "idle"
    /\ dev = InitDev
    /\ calls = <<>>
    /\ writer = 0
    /\ active = {}
    /\ stores = <<>>
    /\ observed = FALSE

----------------------------------------------------------------------------
(* The manager facade: producers of the channel *)

\* Sender::send / try_send on the unbounded channel
Enqueue(m) ==
    /\ m /= Exit => Len(sent) < MaxSends
    /\ sent' = Append(sent, m)
    /\ queue' = Append(queue, m)
    /\ UNCHANGED dispatched

\* EffectManager::set_profile
SetProfile ==
    /\ mgr = "alive"
    /\ \E p \in Profiles : Enqueue(ProfileMsg(p))
    /\ UNCHANGED <<mgr, pc, last_profile, locals, flags, sig_pc, device, hist>>

\* EffectManager::custom_effect
CustomEffect ==
    /\ mgr = "alive"
    /\ \E e \in CustomEffects : Enqueue(CustomEffectMsg(e))
    /\ UNCHANGED <<mgr, pc, last_profile, locals, flags, sig_pc, device, hist>>

\* Message::Refresh sent through the public sender EffectManager.tx
SendRefresh ==
    /\ mgr = "alive"
    /\ Enqueue(Refresh)
    /\ UNCHANGED <<mgr, pc, last_profile, locals, flags, sig_pc, device, hist>>

\* EffectManager::join_and_exit, first statement: send Exit
JoinAndExit ==
    /\ mgr = "alive"
    /\ Enqueue(Exit)
    /\ mgr' = "joining"
    /\ UNCHANGED <<pc, last_profile, locals, flags, sig_pc, device, hist>>

\* join_and_exit returns without waiting for the worker thread
JoinReturns_nowait ==
    /\ mgr = "joining"
    /\ mgr' = "joined"
    /\ UNCHANGED <<chan, pc, last_profile, locals, flags, sig_pc, device, hist>>

\* EffectManager::join_and_exit, second statement: the join returns
JoinReturns ==
    /\ mgr = "joining"
    /\ pc = "done"
    /\ mgr' = "joined"
    /\ UNCHANGED <<chan, pc, last_profile, locals, flags, sig_pc, device, hist>>

----------------------------------------------------------------------------
(* StopSignals *)

\* StopSignals::store_true, called by a holder of a clone of the pair: first store
StoreTrueKeyboard ==
    /\ sig_pc = "idle"
    /\ keyboard_stop_signal' = TRUE
    /\ sig_pc' = "half"
    /\ UNCHANGED <<mgr, chan, pc, last_profile, locals, manager_stop_signal, device, hist>>

\* StopSignals::store_true: second store
StoreTrueManager ==
    /\ sig_pc = "half"
    /\ manager_stop_signal' = TRUE
    /\ sig_pc' = "idle"
    /\ UNCHANGED <<mgr, chan, pc, last_profile, locals, keyboard_stop_signal, device, hist>>

\* StopSignals::store_false by the worker: first store
StoreFalseKeyboard ==
    /\ keyboard_stop_signal' = FALSE
    /\ UNCHANGED manager_stop_signal

\* StopSignals::store_false by the worker: second store
StoreFalseManager ==
    /\ manager_stop_signal' = FALSE
    /\ stores' = Append(stores, FALSE)
    /\ UNCHANGED keyboard_stop_signal

----------------------------------------------------------------------------
(* The worker thread's loop *)

\* the worker polls the channel while a driver or the runner sleeps
CanReceive_reentrant == pc \in {"recv", "ce_sleep", "drv_sleep"}

\* the worker is at try_recv
CanReceive == pc = "recv"

\* the channel hands out its newest message first
Received_lifo(q) == q[Len(q)]

\* the message try_recv returns, and what it leaves in the channel
Received(q) == Head(q)
Remaining(q) == Tail(q)

\* try_recv returns message m: the worker starts command number Len(dispatched) + 1
Receive(m) ==
    /\ CanReceive
    /\ queue /= <<>>
    /\ m = Received(queue)
    /\ queue' = Remaining(queue)
    /\ dispatched' = Append(dispatched, m)
    /\ calls' = <<>>
    /\ stores' = <<>>
    /\ observed' = FALSE
    /\ UNCHANGED <<mgr, sent, flags, sig_pc, dev, writer>>

\* refresh re-applies the default profile instead of the last one
RefreshArgument_default == DefaultProfile

\* the profile Inner::refresh passes to set_profile
RefreshArgument == last_profile

\* Message::Refresh => inner.refresh()
RecvRefresh ==
    /\ Receive(Refresh)
    /\ profile' = RefreshArgument
    /\ pc' = "sp_clear_kb"
    /\ active' = active \cup {Len(dispatched) + 1}
    /\ UNCHANGED <<last_profile, custom_effect, step_i, sub>>

\* the Profile arm applies the profile without recording it
RecvProfile_unrecorded ==
    /\ \E p \in Profiles :
        /\ Receive(ProfileMsg(p))
        /\ profile' = p
    /\ pc' = "sp_clear_kb"
    /\ active' = active \cup {Len(dispatched) + 1}
    /\ UNCHANGED <<last_profile, custom_effect, step_i, sub>>

\* Message::Profile { profile } => last_profile = profile; set_profile(profile)
RecvProfile ==
    /\ \E p \in Profiles :
        /\ Receive(ProfileMsg(p))
        /\ last_profile' = p
        /\ profile' = p
    /\ pc' = "sp_clear_kb"
    /\ active' = active \cup {Len(dispatched) + 1}
    /\ UNCHANGED <<custom_effect, step_i, sub>>

\* Message::CustomEffect { effect } => custom_effect(effect)
RecvCustomEffect ==
    /\ \E e \in CustomEffects :
        /\ Receive(CustomEffectMsg(e))
        /\ custom_effect' = e
    /\ pc' = "ce_clear_kb"
    /\ active' = active \cup {Len(dispatched) + 1}
    /\ UNCHANGED <<last_profile, profile, step_i, sub>>

\* Message::Exit => break
RecvExit ==
    /\ Receive(Exit)
    /\ pc' = "done"
    /\ UNCHANGED <<last_profile, locals, active>>

\* try_recv returns None: sleep 20 ms
RecvNone ==
    /\ CanReceive
    /\ queue = <<>>
    /\ pc' = "sleep"
    /\ UNCHANGED <<mgr, chan, last_profile, locals, flags, sig_pc, device, hist>>

\* the 20 ms sleep ends
Wake ==
    /\ pc = "sleep"
    /\ pc' = "recv"
    /\ UNCHANGED <<mgr, chan, last_profile, locals, flags, sig_pc, device, hist>>

\* a handler returns to the worker loop
Return ==
    /\ pc' = "recv"
    /\ active' = active \ {Len(dispatched)}
    /\ profile' = DefaultProfile
    /\ custom_effect' = NoEffect
    /\ step_i' = 0
    /\ sub' = 0

----------------------------------------------------------------------------
(* Inner::set_profile *)

\* self.stop_signals.store_false() on entry
SpClearKeyboard ==
    /\ pc = "sp_clear_kb"
    /\ StoreFalseKeyboard
    /\ pc' = "sp_clear_mgr"
    /\ UNCHANGED <<mgr, chan, last_profile, locals, sig_pc, device, hist>>

SpClearManager ==
    /\ pc = "sp_clear_mgr"
    /\ StoreFalseManager
    /\ pc' = "sp_base_effect"
    /\ UNCHANGED <<mgr, chan, last_profile, locals, sig_pc, device, active, observed>>

\* self.keyboard.set_effect(BaseEffects::Static)
SpBaseEffect ==
    /\ pc = "sp_base_effect"
    /\ DeviceCall(SetEffect("Static"))
    /\ pc' = "sp_speed"
    /\ UNCHANGED <<mgr, chan, last_profile, locals, flags, sig_pc, hist>>

\* self.keyboard.set_speed(profile.speed)
SpSpeed ==
    /\ pc = "sp_speed"
    /\ DeviceCall(SetSpeed(profile.speed))
    /\ pc' = "sp_brightness"
    /\ UNCHANGED <<mgr, chan, last_profile, locals, flags, sig_pc, hist>>

\* self.keyboard.set_brightness(profile.brightness)
SpBrightness ==
    /\ pc = "sp_brightness"
    /\ DeviceCall(SetBrightness(profile.brightness))
    /\ pc' = "sp_branch"
    /\ UNCHANGED <<mgr, chan, last_profile, locals, flags, sig_pc, hist>>

\* the Static and Breath arms set the mode without pushing the colors
SpColors_skipped ==
    /\ pc = "sp_branch"
    /\ profile.effect \in {"Static", "Breath"}
    /\ pc' = "sp_mode"
    /\ UNCHANGED <<mgr, chan, last_profile, locals, flags, sig_pc, device, hist>>

\* Effects::Static | Effects::Breath: set_colors_to(&profile.rgb_array)
SpColors ==
    /\ pc = "sp_branch"
    /\ profile.effect \in {"Static", "Breath"}
    /\ DeviceCall(SetColorsTo(profile.rgb_array))
    /\ pc' = "sp_mode"
    /\ UNCHANGED <<mgr, chan, last_profile, locals, flags, sig_pc, hist>>

\* the match arms of the two wave directions are swapped
ModeOf_swapped(p) ==
    CASE p.effect = "Static" -> "Static"
      [] p.effect = "Breath" -> "Breath"
      [] p.effect = "Smooth" -> "Smooth"
      [] p.effect = "Wave" /\ p.direction = "Left" -> "RightWave"
      [] p.effect = "Wave" /\ p.direction = "Right" -> "LeftWave"

\* the Static arm sets the Breath mode
ModeOf_breath(p) ==
    CASE p.effect \in {"Static", "Breath"} -> "Breath"
      [] p.effect = "Smooth" -> "Smooth"
      [] p.effect = "Wave" /\ p.direction = "Left" -> "LeftWave"
      [] p.effect = "Wave" /\ p.direction = "Right" -> "RightWave"

\* the base effect the match arm of a direct effect sets
ModeOf(p) ==
    CASE p.effect = "Static" -> "Static"
      [] p.effect = "Breath" -> "Breath"
      [] p.effect = "Smooth" -> "Smooth"
      [] p.effect = "Wave" /\ p.direction = "Left" -> "LeftWave"
      [] p.effect = "Wave" /\ p.direction = "Right" -> "RightWave"

\* Effects::Static | Effects::Breath: set_effect(BaseEffects::Static | Breath)
SpMode ==
    /\ pc = "sp_mode"
    /\ DeviceCall(SetEffect(ModeOf(profile)))
    /\ pc' = "sp_end_kb"
    /\ UNCHANGED <<mgr, chan, last_profile, locals, flags, sig_pc, hist>>

\* Effects::Smooth | Effects::Wave: set_effect(Smooth | LeftWave | RightWave)
SpSmoothOrWave ==
    /\ pc = "sp_branch"
    /\ profile.effect \in {"Smooth", "Wave"}
    /\ DeviceCall(SetEffect(ModeOf(profile)))
    /\ pc' = "sp_end_kb"
    /\ UNCHANGED <<mgr, chan, last_profile, locals, flags, sig_pc, hist>>

\* the SmoothWave arm passes the caller's colors on
DriverArgument_unforced(p) == p

\* the profile the match arm of a driver effect hands to the driver
DriverArgument(p) ==
    IF p.effect = "SmoothWave" THEN [p EXCEPT !.rgb_array = SmoothWavePalette] ELSE p

\* the driver arms: X::play(self, profile, ...)
SpDriver ==
    /\ pc = "sp_branch"
    /\ profile.effect \in DriverEffects
    /\ profile' = DriverArgument(profile)
    /\ pc' = "drv_frame"
    /\ UNCHANGED <<mgr, chan, last_profile, custom_effect, step_i, sub, flags, sig_pc,
                   device, hist>>

\* an effect driver applies a frame
DriverFrame ==
    /\ pc = "drv_frame"
    /\ DeviceCall(SetColorsTo(profile.rgb_array))
    /\ pc' = "drv_check"
    /\ UNCHANGED <<mgr, chan, last_profile, locals, flags, sig_pc, hist>>

\* an effect driver checks the worker-level stop flag and returns when it is raised
DriverCheck ==
    /\ pc = "drv_check"
    /\ IF manager_stop_signal
         THEN pc' = "sp_end_kb" /\ observed' = TRUE
         ELSE pc' = "drv_sleep" /\ UNCHANGED observed
    /\ UNCHANGED <<mgr, chan, last_profile, locals, flags, sig_pc, device, active, stores>>

\* an effect driver's sleep between frames ends
DriverSleep ==
    /\ pc = "drv_sleep"
    /\ pc' = "drv_frame"
    /\ UNCHANGED <<mgr, chan, last_profile, locals, flags, sig_pc, device, hist>>

\* self.stop_signals.store_false() before returning
SpEndKeyboard ==
    /\ pc = "sp_end_kb"
    /\ StoreFalseKeyboard
    /\ pc' = "sp_end_mgr"
    /\ UNCHANGED <<mgr, chan, last_profile, locals, sig_pc, device, hist>>

SpEndManager ==
    /\ pc = "sp_end_mgr"
    /\ StoreFalseManager
    /\ Return
    /\ UNCHANGED <<mgr, chan, last_profile, sig_pc, device, observed>>

----------------------------------------------------------------------------
(* Inner::custom_effect *)

\* self.stop_signals.store_false() on entry
CeClearKeyboard ==
    /\ pc = "ce_clear_kb"
    /\ StoreFalseKeyboard
    /\ pc' = "ce_clear_mgr"
    /\ UNCHANGED <<mgr, chan, last_profile, locals, sig_pc, device, hist>>

\* the runner starts its loop without clearing the worker-level flag
CeClearManager_skipped ==
    /\ pc = "ce_clear_mgr"
    /\ step_i' = 1
    /\ pc' = "ce_for"
    /\ UNCHANGED <<mgr, chan, last_profile, profile, custom_effect, sub, flags, sig_pc,
                   device, hist>>

\* second store; then 'outer: loop { for step in effect_steps ...
CeClearManager ==
    /\ pc = "ce_clear_mgr"
    /\ StoreFalseManager
    /\ step_i' = 1
    /\ pc' = "ce_for"
    /\ UNCHANGED <<mgr, chan, last_profile, profile, custom_effect, sub, sig_pc, device,
                   active, observed>>

\* the step the for loop is at
Step == custom_effect.effect_steps[step_i]

\* the for loop stops one step early
HasStep_short == step_i < Len(custom_effect.effect_steps)

\* the for loop has a next step
HasStep == step_i <= Len(custom_effect.effect_steps)

\* self.keyboard.set_speed(step.speed)
CeSpeed ==
    /\ pc = "ce_for"
    /\ HasStep
    /\ DeviceCall(SetSpeed(Step.speed))
    /\ pc' = "ce_brightness"
    /\ UNCHANGED <<mgr, chan, last_profile, locals, flags, sig_pc, hist>>

\* the runner also reads the worker-level flag between set_brightness and the color call
CeBrightness_checked ==
    /\ pc = "ce_brightness"
    /\ DeviceCall(SetBrightness(Step.brightness))
    /\ IF manager_stop_signal
         THEN /\ observed' = TRUE
              /\ Return
         ELSE /\ pc' = "ce_color"
              /\ UNCHANGED <<locals, active, observed>>
    /\ UNCHANGED <<mgr, chan, last_profile, flags, sig_pc, stores>>

\* self.keyboard.set_brightness(step.brightness)
CeBrightness ==
    /\ pc = "ce_brightness"
    /\ DeviceCall(SetBrightness(Step.brightness))
    /\ pc' = "ce_color"
    /\ UNCHANGED <<mgr, chan, last_profile, locals, flags, sig_pc, hist>>

\* EffectType::Set: self.keyboard.set_colors_to(&step.rgb_array)
CeSet ==
    /\ pc = "ce_color"
    /\ Step.step_type = "Set"
    /\ DeviceCall(SetColorsTo(Step.rgb_array))
    /\ pc' = "ce_check"
    /\ UNCHANGED <<mgr, chan, last_profile, locals, flags, sig_pc, hist>>

\* otherwise: self.keyboard.transition_colors_to(&step.rgb_array, step.steps, delay)
CeTransition ==
    /\ pc = "ce_color"
    /\ Step.step_type /= "Set"
    /\ DeviceCall(TransitionColorsTo(Step.rgb_array, Step.steps, Step.delay_between_steps))
    /\ sub' = Step.steps
    /\ pc' = "ce_transition"
    /\ UNCHANGED <<mgr, chan, last_profile, profile, custom_effect, step_i, flags, sig_pc,
                   hist>>

\* inside transition_colors_to: one sub-step, unless the device-level flag is raised
TransitionStep ==
    /\ pc = "ce_transition"
    /\ IF keyboard_stop_signal \/ sub = 0
         THEN /\ sub' = 0
              /\ pc' = "ce_check"
              /\ UNCHANGED dev
         ELSE /\ dev' = [dev EXCEPT !.colors = TransitionSubStep(@, Step.rgb_array, sub)]
              /\ sub' = sub - 1
              /\ pc' = IF sub = 1 THEN "ce_check" ELSE "ce_transition"
    /\ UNCHANGED <<mgr, chan, last_profile, profile, custom_effect, step_i, flags, sig_pc,
                   calls, writer, hist>>

\* what the runner reads to decide whether to break 'outer
StopRequested == manager_stop_signal

\* the break leaves the for loop only, not 'outer
CeCheck_inner_break ==
    /\ pc = "ce_check"
    /\ IF StopRequested
         THEN /\ observed' = TRUE
              /\ pc' = "ce_loop"
              /\ UNCHANGED <<locals, active>>
         ELSE /\ pc' = "ce_sleep"
              /\ UNCHANGED <<locals, active, observed>>
    /\ UNCHANGED <<mgr, chan, last_profile, flags, sig_pc, device, stores>>

\* if manager_stop_signal.load() { break 'outer }
CeCheck ==
    /\ pc = "ce_check"
    /\ IF StopRequested
         THEN /\ observed' = TRUE
              /\ Return
         ELSE /\ pc' = "ce_sleep"
              /\ UNCHANGED <<locals, active, observed>>
    /\ UNCHANGED <<mgr, chan, last_profile, flags, sig_pc, device, stores>>

\* thread::sleep(step.sleep); the for loop advances
CeSleep ==
    /\ pc = "ce_sleep"
    /\ step_i' = step_i + 1
    /\ pc' = "ce_for"
    /\ UNCHANGED <<mgr, chan, last_profile, profile, custom_effect, sub, flags, sig_pc,
                   device, hist>>

\* the for loop is exhausted
CeExhausted ==
    /\ pc = "ce_for"
    /\ ~HasStep
    /\ pc' = "ce_loop"
    /\ UNCHANGED <<mgr, chan, last_profile, locals, flags, sig_pc, device, hist>>

\* whether the 'outer loop ends after a pass over the steps
LeavesLoop(e) == ~e.should_loop

\* if !custom_effect.should_loop { break }
CeLoop ==
    /\ pc = "ce_loop"
    /\ IF LeavesLoop(custom_effect)
         THEN Return
         ELSE /\ step_i' = 1
              /\ pc' = "ce_for"
              /\ UNCHANGED <<profile, custom_effect, sub, active>>
    /\ UNCHANGED <<mgr, chan, last_profile, flags, sig_pc, device, stores, observed>>

----------------------------------------------------------------------------
(* Specifications *)

Producer == SetProfile \/ CustomEffect \/ SendRefresh \/ JoinAndExit \/ JoinReturns

Signaller == StoreTrueKeyboard \/ StoreTrueManager

Worker ==
    \/ RecvRefresh \/ RecvProfile \/ RecvCustomEffect \/ RecvExit \/ RecvNone \/ Wake
    \/ SpClearKeyboard \/ SpClearManager \/ SpBaseEffect \/ SpSpeed \/ SpBrightness
    \/ SpColors \/ SpMode \/ SpSmoothOrWave \/ SpDriver
    \/ DriverFrame \/ DriverCheck \/ DriverSleep
    \/ SpEndKeyboard \/ SpEndManager
    \/ CeClearKeyboard \/ CeClearManager \/ CeSpeed \/ CeBrightness \/ CeSet
    \/ CeTransition \/ TransitionStep \/ CeCheck \/ CeSleep \/ CeExhausted \/ CeLoop

Next == Producer \/ Signaller \/ Worker

Spec == Init /\ [][Next]_vars

\* the worker thread and a blocked join are scheduled; nothing obliges a producer to
\* send or a holder of the stop signals to raise them
FairSpec == Spec /\ WF_vars(Worker) /\ WF_vars(JoinReturns)

----------------------------------------------------------------------------
(* Vocabulary of the properties *)

\* the worker is in the command loop itself, not inside a handler
InLoop == pc \in {"recv", "sleep"}

\* the worker is inside Inner::custom_effect, past the clearing of the flags
InRunner ==
    pc \in {"ce_for", "ce_brightness", "ce_color", "ce_transition", "ce_check",
            "ce_sleep", "ce_loop"}

\* the worker is inside an effect driver
InDriver == pc \in {"drv_frame", "drv_check", "drv_sleep"}

InChannel(m) == \E k \in 1..Len(queue) : queue[k] = m

\* the command being dispatched, or the last one dispatched
Current == dispatched[Len(dispatched)]

----------------------------------------------------------------------------
(* C1 *)

\* C1: from every state in which Exit is in the channel, the worker thread eventually
\* terminates (and with it the join of join_and_exit), whatever is running when
\* Exit is enqueued.
C1_ExitTerminates == InChannel(Exit) ~> (pc = "done")

----------------------------------------------------------------------------
(* C2 *)

\* C2: a Profile or CustomEffect command enqueued while a looping custom effect runs
\* is eventually dispatched: the running effect is cancelled first.
C2_NewCommandSupersedes ==
    \A n \in 1..MaxSends :
        ( /\ Len(dispatched) = n
          /\ InRunner
          /\ custom_effect.should_loop
          /\ custom_effect.effect_steps /= <<>>
          /\ queue /= <<>>
          /\ Head(queue).type \in {"Profile", "CustomEffect"} )
        ~> (Len(dispatched) > n)

----------------------------------------------------------------------------
(* C3 *)

\* C3: whenever the worker has begun to execute a dequeued command (it has made a
\* device call for it), the first thing it stored to the stop flags after the dequeue
\* was TRUE: store_true precedes the execution.
C3_RaisesBeforeExecuting ==
    calls /= <<>> => (stores /= <<>> /\ Head(stores) = TRUE)

----------------------------------------------------------------------------
(* C4 *)

\* C4: at most one command's handler is active, it is the command dispatched last,
\* every device call was made by a dispatched command, and no handler of an earlier
\* command is active once a later command has made a device call.
C4_SingleWriter ==
    /\ Cardinality(active) <= 1
    /\ active \subseteq {Len(dispatched)}
    /\ (InRunner \/ InDriver) => active = {Len(dispatched)}
    /\ writer <= Len(dispatched)
    /\ \A k \in active : writer <= k

\* a second command is making device calls
C4_Witness ==
    /\ Len(dispatched) = 2
    /\ writer = 2
    /\ active = {2}
    /\ InRunner \/ InDriver

----------------------------------------------------------------------------
(* Reference call sequences, written out from the statements of the claims *)

IsPrefix(a, b) == Len(a) <= Len(b) /\ SubSeq(b, 1, Len(a)) = a

BaseCalls(p) == <<SetEffect("Static"), SetSpeed(p.speed), SetBrightness(p.brightness)>>

\* the device calls of applying a profile of a direct effect
DirectCalls(p) ==
    BaseCalls(p) \o
    CASE p.effect = "Static" -> <<SetColorsTo(p.rgb_array), SetEffect("Static")>>
      [] p.effect = "Breath" -> <<SetColorsTo(p.rgb_array), SetEffect("Breath")>>
      [] p.effect = "Smooth" -> <<SetEffect("Smooth")>>
      [] p.effect = "Wave" ->
            <<SetEffect(IF p.direction = "Left" THEN "LeftWave" ELSE "RightWave")>>

\* the colors a driver's frames show
FrameColors(p) == IF p.effect = "SmoothWave" THEN SmoothWavePalette ELSE p.rgb_array

\* log is the record of one run of the profile-apply procedure on p
IsProfileRun(log, p) ==
    IF p.effect \in DirectEffects
      THEN log = DirectCalls(p)
      ELSE /\ Len(log) > 3
           /\ SubSeq(log, 1, 3) = BaseCalls(p)
           /\ \A k \in 4..Len(log) : log[k] = SetColorsTo(FrameColors(p))

RECURSIVE DevAfter(_, _)
DevAfter(d, log) == IF log = <<>> THEN d ELSE DevAfter(ApplyCall(d, Head(log)), Tail(log))

\* the device after only p was applied to it
AppliedAlone(p) ==
    DevAfter(InitDev,
             IF p.effect \in DirectEffects
               THEN DirectCalls(p)
               ELSE BaseCalls(p) \o <<SetColorsTo(FrameColors(p))>>)

StepCalls(st) ==
    <<SetSpeed(st.speed), SetBrightness(st.brightness),
      IF st.step_type = "Set"
        THEN SetColorsTo(st.rgb_array)
        ELSE TransitionColorsTo(st.rgb_array, st.steps, st.delay_between_steps)>>

RECURSIVE EffectCalls(_)
EffectCalls(steps) ==
    IF steps = <<>> THEN <<>> ELSE StepCalls(Head(steps)) \o EffectCalls(Tail(steps))

\* the profile of the last Profile message of seq, the default profile if it has none
LastSubmitted(seq) ==
    LET at == {k \in 1..Len(seq) : seq[k].type = "Profile"}
    IN  IF at = {} THEN DefaultProfile
        ELSE seq[CHOOSE k \in at : \A j \in at : j <= k].profile

AllProfiles(seq) == \A k \in 1..Len(seq) : seq[k].type = "Profile"

\* every message sent was dispatched and its handler has returned
Drained == InLoop /\ queue = <<>> /\ sent /= <<>>

----------------------------------------------------------------------------
(* C5 *)

\* C5 as stated: once a sequence of Profile messages has drained, the device's
\* effect mode, speed, brightness and colors are those of applying only the last
\* Profile to the device.
C5_OnlyLastProfile ==
    (Drained /\ AllProfiles(sent)) => dev = AppliedAlone(sent[Len(sent)].profile)

\* C5 as amended: once a sequence of Profile messages whose last Profile has a direct
\* effect (Static, Breath, Smooth, Wave) has drained, the device's effect mode, speed
\* and brightness are those of applying only the last Profile, and so are its colors
\* when the last Profile is Static or Breath.
C5_LastDirectProfile ==
    (Drained /\ AllProfiles(sent) /\ sent[Len(sent)].profile.effect \in DirectEffects) =>
        LET p == sent[Len(sent)].profile
            alone == AppliedAlone(p)
        IN  /\ dev.effect = alone.effect
            /\ dev.speed = alone.speed
            /\ dev.brightness = alone.brightness
            /\ p.effect \in {"Static", "Breath"} => dev.colors = alone.colors

\* a Static profile then a Smooth profile have drained; the first one's colors remain
C5_Witness ==
    /\ Drained
    /\ Len(sent) = 2
    /\ AllProfiles(sent)
    /\ sent[1].profile.effect = "Static"
    /\ sent[2].profile.effect = "Smooth"
    /\ dev.effect = "Smooth"
    /\ dev.colors = sent[1].profile.rgb_array

----------------------------------------------------------------------------
(* C6 *)

----------------------------------------------------------------------------
(* C7 *)

NoProfileIn(seq) == \A k \in 1..Len(seq) : seq[k].type /= "Profile"

\* C7: when Refresh is dispatched and no Profile was dispatched before it, the device
\* calls made for it are a run of the profile-apply procedure on the default profile:
\* a prefix of that run while the handler executes, exactly that run (made once) from
\* its return on.
C7_RefreshAppliesDefaultOnce ==
    (dispatched /= <<>> /\ Current = Refresh /\ NoProfileIn(dispatched)) =>
        /\ IsPrefix(calls, DirectCalls(DefaultProfile))
        /\ ~InLoop => profile = DefaultProfile
        /\ InLoop => calls = DirectCalls(DefaultProfile) /\ active = {}

\* the first command was Refresh and its handler has returned
C7_Witness ==
    /\ dispatched = <<Refresh>>
    /\ InLoop
    /\ Len(calls) = 5

----------------------------------------------------------------------------
(* C8 *)

\* C8: a Refresh leaves last_profile the profile of the last Profile message, hands
\* it to the profile-apply procedure, and the device calls it has made when it
\* returns are a run of the procedure on last_profile, as they are for a Profile
\* message carrying that profile.
C8_RefreshReissuesLast ==
    /\ (dispatched /= <<>> /\ Current = Refresh) =>
        /\ last_profile = LastSubmitted(dispatched)
        /\ pc \in {"sp_clear_kb", "sp_clear_mgr", "sp_base_effect", "sp_speed",
                   "sp_brightness", "sp_branch", "sp_mode"} => profile = last_profile
        /\ InLoop => IsProfileRun(calls, last_profile)
    /\ (dispatched /= <<>> /\ Current.type = "Profile" /\ InLoop) =>
        /\ last_profile = Current.profile
        /\ IsProfileRun(calls, Current.profile)

\* a Breath profile, then a Refresh, have been dispatched and have returned
C8_Witness ==
    /\ Len(dispatched) = 2
    /\ dispatched[1].type = "Profile"
    /\ dispatched[1].profile.effect = "Breath"
    /\ dispatched[2] = Refresh
    /\ InLoop

----------------------------------------------------------------------------
(* C9 *)

\* C9: once the worker-level stop flag is raised while the custom-effect runner is in
\* its loop, the runner returns to the worker loop, for every step list and either
\* value of should_loop.
C9_StopEndsRunner == (InRunner /\ manager_stop_signal) ~> InLoop

----------------------------------------------------------------------------
(* C10 *)

\* C10: for a CustomEffect with should_loop = false and a non-empty step list, the
\* device calls made are always a prefix of the steps' calls in list order (set_speed,
\* set_brightness, then set_colors_to or transition_colors_to), and are exactly those
\* calls, each step once, when the runner has returned without having been cancelled.
C10_RunsEachStepOnce ==
    ( /\ dispatched /= <<>>
      /\ Current.type = "CustomEffect"
      /\ ~Current.effect.should_loop
      /\ Current.effect.effect_steps /= <<>> ) =>
        /\ IsPrefix(calls, EffectCalls(Current.effect.effect_steps))
        /\ (InLoop /\ ~observed) => calls = EffectCalls(Current.effect.effect_steps)

\* a non-looping two-step effect has run to its end uncancelled
C10_Witness ==
    /\ dispatched /= <<>>
    /\ Current = CustomEffectMsg(MkEffect(<<StepTransition, StepSet>>, FALSE))
    /\ InLoop
    /\ ~observed
    /\ Len(calls) = 6
    /\ dev.colors = StepSet.rgb_array

----------------------------------------------------------------------------
(* C11 *)

\* the k-th call of a looping run over steps: the steps' calls, wrapping around
CyclicCall(steps, k) ==
    LET pass == EffectCalls(steps) IN pass[((k - 1) % Len(pass)) + 1]

\* C11: for a CustomEffect with should_loop = true and a non-empty step list, the
\* device calls made are the steps' calls in list order, wrapping from the last step
\* to the first; the runner returns only by having read the stop flag as raised; and
\* once it has read it as raised it has returned, having made no call past the step it
\* had just applied.
C11_LoopsUntilStopped ==
    ( /\ dispatched /= <<>>
      /\ Current.type = "CustomEffect"
      /\ Current.effect.should_loop
      /\ Current.effect.effect_steps /= <<>> ) =>
        /\ \A k \in 1..Len(calls) : calls[k] = CyclicCall(Current.effect.effect_steps, k)
        /\ InLoop => observed
        /\ observed =>
            /\ InLoop
            /\ active = {}
            /\ Len(calls) < MaxLog => Len(calls) % 3 = 0

\* a looping effect has wrapped around to its first step and was then cancelled
C11_Witness ==
    /\ dispatched /= <<>>
    /\ Current = CustomEffectMsg(MkEffect(<<StepTransition, StepSet>>, TRUE))
    /\ observed
    /\ InLoop
    /\ Len(calls) > 6

----------------------------------------------------------------------------
(* C12 *)

\* C12: the custom-effect runner, run on an empty step list, returns to the worker
\* loop, whatever should_loop is.
C12_EmptyEffectTerminates ==
    (InRunner /\ custom_effect.effect_steps = <<>>) ~> InLoop

----------------------------------------------------------------------------
(* C13 *)

\* the worker is inside Inner::set_profile itself, outside any driver
InApply ==
    pc \in {"sp_clear_kb", "sp_clear_mgr", "sp_base_effect", "sp_speed", "sp_brightness",
            "sp_branch", "sp_mode", "sp_end_kb", "sp_end_mgr"}

\* C13: while a Profile of kind Static (resp. Breath) with speed s, brightness b and
\* colors c is dispatched, the worker is in the profile-apply procedure or back in
\* its loop, never in a driver; the device calls made are a prefix of
\* set_effect(Static), set_speed(s), set_brightness(b), set_colors_to(c),
\* set_effect(Static) (resp. set_effect(Breath)), and exactly that sequence once the
\* procedure has returned.
C13_StaticAndBreathCalls ==
    \A kind \in {"Static", "Breath"} :
        ( /\ dispatched /= <<>>
          /\ Current.type = "Profile"
          /\ Current.profile.effect = kind ) =>
            LET p == Current.profile
                expected == <<[op |-> "set_effect", mode |-> "Static"],
                              [op |-> "set_speed", val |-> p.speed],
                              [op |-> "set_brightness", val |-> p.brightness],
                              [op |-> "set_colors_to", rgb |-> p.rgb_array],
                              [op |-> "set_effect", mode |-> kind]>>
            IN  /\ InApply \/ InLoop
                /\ IsPrefix(calls, expected)
                /\ InLoop => calls = expected
                /\ pc \in {"sp_end_kb", "sp_end_mgr"} => calls = expected

\* a Breath profile has been applied and the procedure has returned
C13_Witness ==
    /\ dispatched /= <<>>
    /\ Current.type = "Profile"
    /\ Current.profile.effect = "Breath"
    /\ InLoop
    /\ Len(calls) = 5
    /\ dev.effect = "Breath"
    /\ dev.colors = Current.profile.rgb_array

----------------------------------------------------------------------------
(* C14 *)

\* C14: whenever a driver runs for a SmoothWave profile, the profile it was handed is
\* the caller's with rgb_array replaced by [255,0,0,0,255,0,0,0,255,255,0,255], and
\* every frame it has pushed shows that palette; up to the match on the effect the
\* procedure still holds the caller's profile.
C14_SmoothWavePalette ==
    (active /= {} /\ last_profile.effect = "SmoothWave" /\ Current.type /= "CustomEffect") =>
        /\ InDriver =>
            /\ profile.rgb_array = <<255, 0, 0, 0, 255, 0, 0, 0, 255, 255, 0, 255>>
            /\ profile = [last_profile EXCEPT !.rgb_array = profile.rgb_array]
        /\ (InApply /\ pc \notin {"sp_end_kb", "sp_end_mgr"}) => profile = last_profile
        /\ \A k \in 4..Len(calls) :
            calls[k] = [op |-> "set_colors_to",
                        rgb |-> <<255, 0, 0, 0, 255, 0, 0, 0, 255, 255, 0, 255>>]

\* the driver has pushed a frame for a SmoothWave profile submitted with blue colors
C14_Witness ==
    /\ InDriver
    /\ last_profile.effect = "SmoothWave"
    /\ last_profile.rgb_array = Blue
    /\ Len(calls) > 3
    /\ dev.colors = SmoothWavePalette

----------------------------------------------------------------------------
(* C15 *)

\* the worker is between the two stores of a store_false call
WorkerMidStore == pc \in {"sp_clear_mgr", "sp_end_mgr", "ce_clear_mgr"}

----------------------------------------------------------------------------
(* C16 *)

\* C16: Exit is in what was sent exactly when join_and_exit has sent it; the join has
\* returned only if the worker has terminated; and when the worker has terminated,
\* Exit is the last message it dispatched, every message sent before it was dispatched
\* before it, in order, with its handler returned, nothing is left in the channel, and
\* no device call was made since Exit was dispatched.
C16_ShutdownLosesNothing ==
    /\ (mgr /= "alive") <=> (\E k \in 1..Len(sent) : sent[k] = Exit)
    /\ mgr = "joined" => pc = "done"
    /\ pc = "done" =>
        /\ dispatched = sent
        /\ queue = <<>>
        /\ dispatched[Len(dispatched)] = Exit
        /\ \A k \in 1..(Len(dispatched) - 1) : dispatched[k] /= Exit
        /\ active = {}
        /\ calls = <<>>
        /\ writer < Len(dispatched)
    /\ pc /= "done" => \A k \in 1..Len(dispatched) : dispatched[k] /= Exit

\* two commands, then Exit, were dispatched and the join has returned
C16_Witness ==
    /\ mgr = "joined"
    /\ pc = "done"
    /\ Len(dispatched) = 3
    /\ writer = 2

----------------------------------------------------------------------------
(* C17 *)

----------------------------------------------------------------------------
(* C18 *)

\* the color call of the step the for loop is at
ColorCall ==
    IF Step.step_type = "Set"
      THEN SetColorsTo(Step.rgb_array)
      ELSE TransitionColorsTo(Step.rgb_array, Step.steps, Step.delay_between_steps)

\* A step of the runner: it leaves the runner only from the flag check, having read the
\* worker-level flag as raised, or from the should_loop test, having read nothing; it
\* reaches the flag check only from the color call of the step, after that call has
\* returned; and the flag check is followed by the step's sleep, entered only from it.
ReadsOncePerStep ==
    /\ (InRunner /\ pc' = "recv") =>
          \/ pc = "ce_check" /\ manager_stop_signal /\ observed'
          \/ pc = "ce_loop" /\ ~custom_effect.should_loop /\ observed' = observed
    /\ (InRunner /\ observed' /= observed) => pc = "ce_check"
    /\ (pc' = "ce_check" /\ pc /= "ce_check") =>
          /\ pc \in {"ce_color", "ce_transition"}
          /\ sub' = 0
          /\ step_i' = step_i
          /\ Len(calls') < MaxLog => calls'[Len(calls')] = ColorCall
    /\ (pc = "ce_check" /\ pc' /= "ce_check") =>
          /\ pc' \in {"ce_sleep", "recv"}
          /\ pc' = "ce_sleep" => (~manager_stop_signal /\ calls' = calls)
    /\ (pc' = "ce_sleep" /\ pc /= "ce_sleep") => pc = "ce_check"
    /\ (pc = "ce_sleep" /\ pc' /= "ce_sleep") => (pc' = "ce_for" /\ step_i' = step_i + 1)

----------------------------------------------------------------------------
(* C19 *)

----------------------------------------------------------------------------
(* C20 *)

\* positions of a handler before its store_false on entry has completed
BeforeClear == pc \in {"sp_clear_kb", "sp_clear_mgr", "ce_clear_kb", "ce_clear_mgr"}

\* positions at which a stop flag is read
AtFlagRead == pc \in {"drv_check", "ce_transition", "ce_check"}

\* While a command is being dispatched: before its entry clear is complete it has made
\* no store of a flag to true, no device call and no flag read; a device call, a flag
\* read or a cancellation has the completed clear before it. After a custom effect
\* has returned the worker has stored to the flags once, on entry, and a flag that
\* cancelled it is still raised; after a profile application it has stored twice.
ClearsFirst ==
    /\ \A k \in 1..Len(stores) : stores[k] = FALSE
    /\ (active /= {} /\ BeforeClear) => (stores = <<>> /\ calls = <<>> /\ ~observed)
    /\ (active /= {} /\ (calls /= <<>> \/ AtFlagRead \/ observed)) => stores /= <<>>
    /\ (dispatched /= <<>> /\ Current.type = "CustomEffect") =>
          /\ Len(stores) <= 1
          /\ (InLoop /\ observed) => manager_stop_signal
    /\ (dispatched /= <<>> /\ Current.type \in {"Profile", "Refresh"} /\ InLoop) =>
          Len(stores) = 2

\* A step of the worker that stores to a flag on entry leaves that flag false, whatever
\* it was; the runner's return leaves both flags as they are, and the return of the
\* profile application stores false to the worker-level flag.
ErasesEarlierSignal ==
    /\ (pc \in {"sp_clear_kb", "ce_clear_kb"} /\ pc' /= pc) => ~keyboard_stop_signal'
    /\ (pc \in {"sp_clear_mgr", "ce_clear_mgr"} /\ pc' /= pc) =>
          (~manager_stop_signal' /\ keyboard_stop_signal' = keyboard_stop_signal)
    /\ (InRunner /\ pc' = "recv") => (flags' = flags /\ stores' = stores)
    /\ (pc = "sp_end_mgr" /\ pc' = "recv") => ~manager_stop_signal'

\* C20: every dispatch of Profile, Refresh or CustomEffect completes store_false before
\* its first device call and before it reads a stop flag, so the flags are false after
\* that clear whatever was raised before it, and a flag the command reads as raised was
\* raised after the clear; the custom-effect runner returns without storing to the
\* flags, the profile application stores false again.
C20_ClearsBeforeActing == []ClearsFirst /\ [][ErasesEarlierSignal]_vars

\* a looping custom effect was cancelled and returned with both flags raised; the
\* Profile dispatched next has cleared them and is making its device calls
C20_Witness ==
    /\ Len(dispatched) = 2
    /\ dispatched[1].type = "CustomEffect"
    /\ dispatched[1].effect.should_loop
    /\ Current.type = "Profile"
    /\ active = {2}
    /\ stores = <<FALSE>>
    /\ Len(calls) = 2
    /\ ~observed
    /\ ~keyboard_stop_signal
    /\ ~manager_stop_signal
    /\ sig_pc = "idle"

====
